---- MODULE Spec2Model ----
(***************************************************************************)
(* Model of github_metrics.py: the two entry points get_github_metrics     *)
(* and main, as one sequential pipeline                                    *)
(*   configuration check -> authenticate -> get repository ->              *)
(*   (get_github_metrics only: enumerate branches, build the               *)
(*    commit_branch_map, collect all_commits) ->                           *)
(*   accumulate per commit -> emit the three tables.                       *)
(* The hosting API is the environment: what it returns (branch list,       *)
(* commit listings, commits and their file deltas) is chosen in Init, and  *)
(* whether a call fails is chosen when the call is made.                   *)
(***************************************************************************)
EXTENDS Integers, Sequences, FiniteSets, TLC

VARIABLES
    entry,              \* which entry point runs: "get_github_metrics" or "main"
    token,              \* credential present?
    repo_name,          \* repository identifier present?
    repo_branches,      \* what the API lists as the repository's branches
    page_size,          \* how many branches the API puts on one page
    listing,            \* per branch: the SHAs get_commits yields, in order
    pc,                 \* position in the pipeline
    status,             \* why the run stopped, "running" until then
    exit_code,          \* process exit status, NoExit while running
    api_calls,          \* number of requests sent to the hosting API
    faults,             \* number of branch commit fetches that failed
    page,               \* get_branches: number of the page to request next
    branches,           \* get_branches: names collected so far, then its result
    bi,                 \* index of the branch the current pass is at
    commit_branch_map,  \* SHA -> branch name
    all_commits,        \* the flat sequence of SHAs the accumulator visits
    ci,                 \* index of the next commit to visit
    dev_metrics,        \* author -> metrics (developer_metrics in main)
    team_metrics,       \* main only: separately mutated team counters
    daily_activity,     \* main only: author -> date -> count
    team_table,         \* emitted team summary
    dev_table,          \* emitted developer summary rows
    daily_table,        \* emitted daily activity rows
    tables_written      \* have the CSV files been written?

world == <<entry, token, repo_name, repo_branches, page_size, listing>>
vars == <<entry, token, repo_name, repo_branches, page_size, listing, pc, status,
          exit_code, api_calls, faults, page, branches, bi, commit_branch_map,
          all_commits, ci, dev_metrics, team_metrics, daily_activity,
          team_table, dev_table, daily_table, tables_written>>

----------------------------------------------------------------------------
(* Bounds *)

MaxListLen == 2     \* commits one branch listing yields
MaxFaults == 1      \* failing branch fetches in one run
MaxApiCalls == 12   \* cap of the request counter
MaxRepoBranches == 5 \* branches of a repository whose listing is paged

(* get_branches compares a page with per_page = 100 entries and stops at   *)
(* 1000 names; the model keeps both comparisons and scales the numbers.    *)
PerPage == 2
BranchCap == 3

(* Dates are day numbers.  end_date is the run date, start_date is 7 days   *)
(* before it.                                                              *)
WindowDays == 7      \* timedelta(days=7)
DailyDays == 7       \* range(7) of the daily activity table
EndDay == 10
StartDay == EndDay - WindowDays

NoDate == -1        \* None for first_commit / last_commit
Absent == -1        \* None for file.additions / file.deletions
NoFail == -1        \* file processing of the commit does not fail
NoExit == -1        \* the process has not exited
NoAuthor == "<none>"

----------------------------------------------------------------------------
(* File names are sequences of characters, so that lower() and endswith()  *)
(* are computed and not assumed.                                           *)

LowerOf == ("P" :> "p") @@ ("N" :> "n") @@ ("G" :> "g") @@ ("J" :> "j") @@ ("E" :> "e")

LowerChar(c) == IF c \in DOMAIN LowerOf THEN LowerOf[c] ELSE c

Lower(s) == [i \in 1..Len(s) |-> LowerChar(s[i])]

EndsWith(s, suf) ==
    /\ Len(s) >= Len(suf)
    /\ SubSeq(s, Len(s) - Len(suf) + 1, Len(s)) = suf

ImageExts == { <<".", "p", "n", "g">>, <<".", "j", "p", "g">>, <<".", "j", "p", "e", "g">> }

IsImageCaseSensitive(filename) == \E ext \in ImageExts : EndsWith(filename, ext)

IsImage(filename) == \E ext \in ImageExts : EndsWith(Lower(filename), ext)

----------------------------------------------------------------------------
(* The commits the API can deliver.                                        *)

a_py    == <<"a", ".", "p", "y">>
b_PNG   == <<"b", ".", "P", "N", "G">>
c_py    == <<"c", ".", "p", "y">>
pic_JpEg == <<"p", ".", "J", "p", "E", "g">>
d_py    == <<"d", ".", "p", "y">>
png     == <<"p", "n", "g">>
f_jpg_py == <<"f", ".", "j", "p", "g", ".", "p", "y">>

File(n, a, d) == [filename |-> n, additions |-> a, deletions |-> d]

Commit(l, n, d, fs, k) ==
    [login |-> l, name |-> n, date |-> d, files |-> fs, files_fail_at |-> k]

Commits ==
    ("s1" :> Commit("alice", "Alice A", StartDay + 1,
                    << File(a_py, 10, Absent), File(b_PNG, 7, 3) >>, NoFail))
 @@ ("s2" :> Commit(NoAuthor, "bob", StartDay + 1,
                    << File(c_py, 2, 1), File(pic_JpEg, 1, 1), File(d_py, 4, 2) >>, 2))
 @@ ("s3" :> Commit("alice", "Alice A", StartDay - 1,
                    << File(a_py, 5, 1) >>, NoFail))
 @@ ("s4" :> Commit(NoAuthor, NoAuthor, StartDay + 2,
                    << File(a_py, 1, 1) >>, NoFail))
 @@ ("s5" :> Commit("alice", "Alice A", StartDay,
                    << File(png, 3, 3), File(f_jpg_py, Absent, 2) >>, 0))

SHAs == DOMAIN Commits

BranchNames == {"master", "feature-x"}

BranchOrders == { <<"master">>, <<"master", "feature-x">>, <<"feature-x", "master">> }

DefaultBranch == "master"

(* an entry of the branch listing whose name cannot be read *)
Unreadable == "<unreadable>"

BranchEntries == BranchNames \cup {Unreadable}

RECURSIVE SeqsUpTo(_, _)
SeqsUpTo(S, n) ==
    IF n = 0 THEN { <<>> }
    ELSE LET shorter == SeqsUpTo(S, n - 1)
         IN  shorter \cup { Append(s, x) : s \in shorter, x \in S }

Range(s) == { s[i] : i \in 1..Len(s) }

NoDup(s) == Cardinality(Range(s)) = Len(s)

(* A listing of one branch holds each commit once. *)
Listings == { s \in SeqsUpTo(SHAs, MaxListLen) : NoDup(s) }

(* Repositories whose branch listing exercises the paging of get_branches *)
PagedRepos == SeqsUpTo(BranchEntries, MaxRepoBranches)

EmptyFn == [x \in {} |-> 0]


----------------------------------------------------------------------------
(* The accumulator map: a defaultdict whose missing entries read as the    *)
(* default record and are created by the read.                             *)

NewMetrics ==
    [lines_added |-> 0, lines_removed |-> 0, commits |-> 0,
     coding_days |-> {}, commits_per_day |-> EmptyFn, files_changed |-> {},
     first_commit |-> NoDate, last_commit |-> NoDate,
     pr_branch_commits |-> 0, pr_branch_days |-> {},
     master_commits |-> 0, master_days |-> {}]

NewTeamMetrics ==
    [total_lines_added |-> 0, total_lines_removed |-> 0, total_commits |-> 0,
     total_coding_days |-> {}, active_developers |-> {}]

Get(m, k) == IF k \in DOMAIN m THEN m[k] ELSE NewMetrics

Put(m, k, v) == [x \in DOMAIN m \cup {k} |-> IF x = k THEN v ELSE m[x]]

(* defaultdict(int): d[k] += 1 *)
Incr(d, k) == [x \in DOMAIN d \cup {k} |-> IF x = k
                                            THEN (IF k \in DOMAIN d THEN d[k] ELSE 0) + 1
                                            ELSE d[x]]

(* dict.get(k, 0) *)
GetOr0(d, k) == IF k \in DOMAIN d THEN d[k] ELSE 0

----------------------------------------------------------------------------
(* Author resolution and the commit date.                                  *)

ResolveAuthor(c) ==
    IF c.login # NoAuthor THEN c.login
    ELSE IF c.name # NoAuthor THEN c.name
    ELSE "Unknown"

(* commit.commit.author.date raises when commit.commit.author is None *)
DateRaises(c) == c.name = NoAuthor

InWindow(commit_date) == commit_date >= StartDay

----------------------------------------------------------------------------
(* commit_branch_map *)

RecordBranch(cbm, sha, branch_name) ==
    [x \in DOMAIN cbm \cup {sha} |-> IF x = sha THEN branch_name ELSE cbm[x]]

(* the loop "for commit in commits" over the first k commits delivered *)
RECURSIVE MapCommits(_, _, _, _)
MapCommits(cbm, lst, k, branch_name) ==
    IF k = 0 THEN cbm
    ELSE RecordBranch(MapCommits(cbm, lst, k - 1, branch_name), lst[k], branch_name)

BranchOf(cbm, sha) == IF sha \in DOMAIN cbm THEN cbm[sha] ELSE "Unknown"

----------------------------------------------------------------------------
(* first_commit / last_commit *)

UpdateFirstLastSeen(old, commit_date) == commit_date

UpdateFirst(old, commit_date) ==
    IF old = NoDate \/ commit_date < old THEN commit_date ELSE old

UpdateLast(old, commit_date) ==
    IF old = NoDate \/ commit_date > old THEN commit_date ELSE old

----------------------------------------------------------------------------
(* The file loop of one commit.  It returns what the loop added before it  *)
(* ended or raised: files_fail_at = k means the exception is raised after  *)
(* k deltas were processed (k = 0: reading commit.files raises).           *)

NoFiles == [files_changed |-> {}, lines_added |-> 0, lines_removed |-> 0]

RECURSIVE FileLoop(_, _, _, _)
FileLoop(acc, files, i, fail_at) ==
    IF i > Len(files) \/ fail_at = i - 1 THEN acc
    ELSE LET file == files[i] IN
         IF IsImage(file.filename)
         THEN FileLoop(acc, files, i + 1, fail_at)
         ELSE FileLoop(
                [files_changed |-> acc.files_changed \cup {file.filename},
                 lines_added   |-> acc.lines_added
                                     + (IF file.additions # Absent THEN file.additions ELSE 0),
                 lines_removed |-> acc.lines_removed
                                     + (IF file.deletions # Absent THEN file.deletions ELSE 0)],
                files, i + 1, fail_at)

ProcessFilesIgnoringFailure(c) == FileLoop(NoFiles, c.files, 1, NoFail)

ProcessFiles(c) == FileLoop(NoFiles, c.files, 1, c.files_fail_at)


----------------------------------------------------------------------------
(* One iteration of the accumulation loop of get_github_metrics.           *)

AccumulateCommit(dm, sha, cbm) ==
    LET c           == Commits[sha]
        author      == ResolveAuthor(c)
        commit_date == c.date
        m           == Get(dm, author)
        branch_name == BranchOf(cbm, sha)
        fc          == ProcessFiles(c)
    IN  IF ~InWindow(commit_date) THEN dm
        ELSE Put(dm, author,
               [m EXCEPT
                  !.commits           = @ + 1,
                  !.coding_days       = @ \cup {commit_date},
                  !.commits_per_day   = Incr(@, commit_date),
                  !.master_commits    = IF branch_name = "master" THEN @ + 1 ELSE @,
                  !.master_days       = IF branch_name = "master" THEN @ \cup {commit_date} ELSE @,
                  !.pr_branch_commits = IF branch_name = "master" THEN @ ELSE @ + 1,
                  !.pr_branch_days    = IF branch_name = "master" THEN @ ELSE @ \cup {commit_date},
                  !.first_commit      = UpdateFirst(@, commit_date),
                  !.last_commit       = UpdateLast(@, commit_date),
                  !.files_changed     = @ \cup fc.files_changed,
                  !.lines_added       = @ + fc.lines_added,
                  !.lines_removed     = @ + fc.lines_removed])

(* One iteration of the commit loop of main: no date filter, every commit  *)
(* is a default-branch commit.                                             *)

TeamUpdateNoDeveloper(tm, author, commit_date, fc) ==
    [tm EXCEPT
       !.total_commits       = @ + 1,
       !.total_coding_days   = @ \cup {commit_date},
       !.total_lines_added   = @ + fc.lines_added,
       !.total_lines_removed = @ + fc.lines_removed]

TeamUpdate(tm, author, commit_date, fc) ==
    [tm EXCEPT
       !.total_commits       = @ + 1,
       !.total_coding_days   = @ \cup {commit_date},
       !.active_developers   = @ \cup {author},
       !.total_lines_added   = @ + fc.lines_added,
       !.total_lines_removed = @ + fc.lines_removed]

AccumulateCommitMain(dm, sha) ==
    LET c           == Commits[sha]
        author      == ResolveAuthor(c)
        commit_date == c.date
        m           == Get(dm, author)
        fc          == ProcessFiles(c)
    IN  Put(dm, author,
          [m EXCEPT
             !.commits        = @ + 1,
             !.coding_days    = @ \cup {commit_date},
             !.master_commits = @ + 1,
             !.first_commit   = UpdateFirst(@, commit_date),
             !.last_commit    = UpdateLast(@, commit_date),
             !.files_changed  = @ \cup fc.files_changed,
             !.lines_added    = @ + fc.lines_added,
             !.lines_removed  = @ + fc.lines_removed])

DailyUpdate(da, author, commit_date) ==
    [x \in DOMAIN da \cup {author} |->
        IF x = author
        THEN Incr(IF author \in DOMAIN da THEN da[author] ELSE EmptyFn, commit_date)
        ELSE da[x]]

----------------------------------------------------------------------------
(* The report tables.  The formatted columns 'Avg Commits/Day' and         *)
(* 'Activity Period' are represented by the activity_days they are         *)
(* computed from.                                                          *)

RECURSIVE SumFn(_, _)
SumFn(f, S) ==
    IF S = {} THEN 0
    ELSE LET x == CHOOSE y \in S : TRUE IN f[x] + SumFn(f, S \ {x})

NoTable == [written |-> FALSE]

TeamSummary(dm) ==
    [written             |-> TRUE,
     total_lines_added   |-> SumFn([a \in DOMAIN dm |-> dm[a].lines_added], DOMAIN dm),
     total_lines_removed |-> SumFn([a \in DOMAIN dm |-> dm[a].lines_removed], DOMAIN dm),
     net_lines_changed   |-> SumFn([a \in DOMAIN dm |-> dm[a].lines_added - dm[a].lines_removed],
                                   DOMAIN dm),
     total_commits       |-> SumFn([a \in DOMAIN dm |-> dm[a].commits], DOMAIN dm),
     total_coding_days   |-> Cardinality(UNION { dm[a].coding_days : a \in DOMAIN dm }),
     active_developers   |-> Cardinality(DOMAIN dm)]

TeamSummaryMain(tm) ==
    [written             |-> TRUE,
     total_lines_added   |-> tm.total_lines_added,
     total_lines_removed |-> tm.total_lines_removed,
     net_lines_changed   |-> tm.total_lines_added - tm.total_lines_removed,
     total_commits       |-> tm.total_commits,
     total_coding_days   |-> Cardinality(tm.total_coding_days),
     active_developers   |-> Cardinality(tm.active_developers)]

ActivityDays(m) ==
    IF m.first_commit # NoDate /\ m.last_commit # NoDate
    THEN (m.last_commit - m.first_commit) + 1
    ELSE 0

DeveloperRows(dm) ==
    { [Developer         |-> a,
       lines_added       |-> dm[a].lines_added,
       lines_removed     |-> dm[a].lines_removed,
       net_lines_changed |-> dm[a].lines_added - dm[a].lines_removed,
       total_commits     |-> dm[a].commits,
       pr_branch_commits |-> dm[a].pr_branch_commits,
       master_commits    |-> dm[a].master_commits,
       coding_days       |-> Cardinality(dm[a].coding_days),
       files_changed     |-> Cardinality(dm[a].files_changed),
       activity_days     |-> ActivityDays(dm[a])] : a \in DOMAIN dm }

(* get_github_metrics: range(7) days back from end_date, for every developer *)
DailyRows(dm) ==
    { [Developer |-> a, Date |-> EndDay - i,
       Commits   |-> GetOr0(dm[a].commits_per_day, EndDay - i)] :
         a \in DOMAIN dm, i \in 0..(DailyDays - 1) }

(* main: one row per date the developer has an entry for *)
DailyRowsMain(da) ==
    UNION { { [Developer |-> a, Date |-> d, Commits |-> da[a][d]] : d \in DOMAIN da[a] } :
            a \in DOMAIN da }


----------------------------------------------------------------------------
(* Initial state: the inputs of the run and the state after construction.  *)
(* The listings matter only to a run that gets past its configuration      *)
(* check; main reads the default branch only.  A repository either has    *)
(* one of the short branch lists, with any commit listings, or a longer    *)
(* branch list that takes several pages, with empty commit listings.       *)

Init ==
    /\ entry \in {"get_github_metrics", "main"}
    /\ token \in BOOLEAN
    /\ repo_name \in BOOLEAN
    /\ \/ /\ repo_branches \in BranchOrders
          /\ page_size = PerPage
          /\ listing \in [BranchNames -> Listings]
       \/ /\ entry = "get_github_metrics" /\ token /\ repo_name
          /\ repo_branches \in PagedRepos
          /\ page_size \in 1..PerPage
          /\ listing = [b \in BranchNames |-> <<>>]
    /\ (entry = "main" \/ ~token \/ ~repo_name) => repo_branches = <<"master">>
    /\ (~token \/ ~repo_name) => listing = [b \in BranchNames |-> <<>>]
    /\ \A b \in BranchNames :
          (b # DefaultBranch /\ b \notin Range(repo_branches)) => listing[b] = <<>>
    /\ pc = "start"
    /\ status = "running"
    /\ exit_code = NoExit
    /\ api_calls = 0
    /\ faults = 0
    /\ page = 1
    /\ branches = <<>>
    /\ bi = 1
    /\ commit_branch_map = EmptyFn
    /\ all_commits = <<>>
    /\ ci = 1
    /\ dev_metrics = EmptyFn
    /\ team_metrics = NewTeamMetrics
    /\ daily_activity = EmptyFn
    /\ team_table = NoTable
    /\ dev_table = {}
    /\ daily_table = {}
    /\ tables_written = FALSE

Call(n) == IF n < MaxApiCalls THEN n + 1 ELSE n

data == <<branches, bi, commit_branch_map, all_commits, ci, dev_metrics,
          team_metrics, daily_activity>>
tables == <<team_table, dev_table, daily_table, tables_written>>

(* sys.exit(code), or main returning (the script then ends with status 0) *)
Stop(why, code) ==
    /\ pc' = "exited"
    /\ status' = why
    /\ exit_code' = code

Continue(next) ==
    /\ pc' = next
    /\ UNCHANGED <<status, exit_code>>

(* get_github_metrics: "if not token: ... sys.exit(1)" *)
CheckToken ==
    /\ pc = "start"
    /\ entry = "get_github_metrics"
    /\ IF ~token THEN Stop("missing_config", 1) ELSE Continue("auth")
    /\ UNCHANGED <<world, page, api_calls, faults, data, tables>>

(* main: "if not token: ... return", "if not repo_name: ... return" *)
CheckEnv ==
    /\ pc = "start"
    /\ entry = "main"
    /\ IF ~token \/ ~repo_name THEN Stop("missing_config", 0) ELSE Continue("auth")
    /\ UNCHANGED <<world, page, api_calls, faults, data, tables>>

(* g.get_user() / user.login *)
Authenticate ==
    /\ pc = "auth"
    /\ api_calls' = Call(api_calls)
    /\ \E ok \in BOOLEAN :
          IF ok THEN Continue("get_repo")
          ELSE Stop("auth_failed", IF entry = "main" THEN 0 ELSE 1)
    /\ UNCHANGED <<world, page, faults, data, tables>>

(* g.get_repo(repo_name); without a repository identifier the call cannot  *)
(* succeed, whether or not the client sends a request for it.              *)
GetRepo ==
    /\ pc = "get_repo"
    /\ \E ok \in BOOLEAN, sent \in BOOLEAN :
          /\ ok => repo_name
          /\ repo_name => sent
          /\ api_calls' = IF sent THEN Call(api_calls) ELSE api_calls
          /\ IF ok
             THEN Continue(IF entry = "main" THEN "get_commits" ELSE "get_branches")
             ELSE Stop("repo_failed", IF entry = "main" THEN 0 ELSE 1)
    /\ UNCHANGED <<world, page, faults, data, tables>>

(* get_branches: what repo.get_branches().get_page(page) returns *)
PageOf(p) ==
    LET first == (p - 1) * page_size + 1
        last  == IF p * page_size < Len(repo_branches) THEN p * page_size
                 ELSE Len(repo_branches)
    IN  IF first > last THEN <<>> ELSE SubSeq(repo_branches, first, last)

(* get_branches: "for branch in branch_page" from the i-th entry on: a     *)
(* name that cannot be read is skipped, the loop breaks at the cap.        *)
RECURSIVE ProcessPage(_, _, _)
ProcessPage(brs, branch_page, i) ==
    IF i > Len(branch_page) THEN brs
    ELSE IF branch_page[i] = Unreadable THEN ProcessPage(brs, branch_page, i + 1)
    ELSE LET appended == Append(brs, branch_page[i])
         IN  IF Len(appended) >= BranchCap THEN appended
             ELSE ProcessPage(appended, branch_page, i + 1)

LastPageIgnoresShortPage(brs, branch_page) == Len(brs) >= BranchCap

(* get_branches: "if len(branches) >= 1000 or len(branch_page) < per_page: break" *)
LastPage(brs, branch_page) == Len(brs) >= BranchCap \/ Len(branch_page) < PerPage

(* branches = get_branches(repo): one iteration of its "while True".  The  *)
(* page request fails or delivers a page; get_branches returns when the    *)
(* loop breaks.                                                            *)
GetBranches ==
    /\ pc = "get_branches"
    /\ api_calls' = Call(api_calls)
    /\ \E ok \in BOOLEAN :
          LET branch_page == PageOf(page)
              collected   == ProcessPage(branches, branch_page, 1)
          IN  IF ~ok \/ branch_page = <<>>
              THEN /\ UNCHANGED <<branches, page>>
                   /\ Continue("map")
              ELSE /\ branches' = collected
                   /\ IF LastPage(collected, branch_page)
                      THEN /\ UNCHANGED page
                           /\ Continue("map")
                      ELSE /\ page' = page + 1
                           /\ Continue("get_branches")
    /\ bi' = 1
    /\ UNCHANGED <<world, faults, commit_branch_map, all_commits, ci, dev_metrics,
                   team_metrics, daily_activity, tables>>

(* The outcomes of fetching one listing: all of it (k = Len), or an       *)
(* exception after k commits were delivered.                              *)
Delivered(lst) == 0..Len(lst)

(* first pass: one branch of "for branch_name in branches" *)
MapBranch ==
    /\ pc = "map"
    /\ bi <= Len(branches)
    /\ LET branch_name == branches[bi]
           lst         == listing[branch_name]
       IN  \E failed \in BOOLEAN, k \in Delivered(lst) :
              /\ failed => (faults < MaxFaults /\ (k < Len(lst) \/ Len(lst) = 0))
              /\ ~failed => k = Len(lst)
              /\ faults' = IF failed THEN faults + 1 ELSE faults
              /\ commit_branch_map' = MapCommits(commit_branch_map, lst, k, branch_name)
    /\ bi' = bi + 1
    /\ api_calls' = Call(api_calls)
    /\ Continue("map")
    /\ UNCHANGED <<world, page, branches, all_commits, ci, dev_metrics, team_metrics,
                   daily_activity, tables>>

MapDone ==
    /\ pc = "map"
    /\ bi > Len(branches)
    /\ bi' = 1
    /\ Continue("collect")
    /\ UNCHANGED <<world, page, api_calls, faults, branches, commit_branch_map, all_commits,
                   ci, dev_metrics, team_metrics, daily_activity, tables>>

(* second pass: all_commits.extend(commits) for one branch *)
CollectBranch ==
    /\ pc = "collect"
    /\ bi <= Len(branches)
    /\ LET branch_name == branches[bi]
           lst         == listing[branch_name]
       IN  \E failed \in BOOLEAN, k \in Delivered(lst) :
              /\ failed => (faults < MaxFaults /\ (k < Len(lst) \/ Len(lst) = 0))
              /\ ~failed => k = Len(lst)
              /\ faults' = IF failed THEN faults + 1 ELSE faults
              /\ all_commits' = all_commits \o SubSeq(lst, 1, k)
    /\ bi' = bi + 1
    /\ api_calls' = Call(api_calls)
    /\ Continue("collect")
    /\ UNCHANGED <<world, page, branches, commit_branch_map, ci, dev_metrics, team_metrics,
                   daily_activity, tables>>

CollectDone ==
    /\ pc = "collect"
    /\ bi > Len(branches)
    /\ ci' = 1
    /\ Continue("accumulate")
    /\ UNCHANGED <<world, page, api_calls, faults, branches, bi, commit_branch_map,
                   all_commits, dev_metrics, team_metrics, daily_activity, tables>>

(* main: commits = repo.get_commits(since=start_date, until=end_date) *)
GetCommits ==
    /\ pc = "get_commits"
    /\ all_commits' = listing[DefaultBranch]
    /\ ci' = 1
    /\ api_calls' = Call(api_calls)
    /\ Continue("accumulate")
    /\ UNCHANGED <<world, page, faults, branches, bi, commit_branch_map, dev_metrics,
                   team_metrics, daily_activity, tables>>


(* get_github_metrics: one iteration of "for commit in all_commits".  An   *)
(* exception of the date read reaches the outer handler: sys.exit(1).      *)
Accumulate ==
    /\ pc = "accumulate"
    /\ entry = "get_github_metrics"
    /\ ci <= Len(all_commits)
    /\ LET sha == all_commits[ci]
           c   == Commits[sha]
       IN  IF DateRaises(c)
           THEN /\ Stop("error", 1)
                /\ UNCHANGED <<ci, dev_metrics, api_calls>>
           ELSE /\ dev_metrics' = AccumulateCommit(dev_metrics, sha, commit_branch_map)
                /\ ci' = ci + 1
                /\ api_calls' = IF InWindow(c.date) THEN Call(api_calls) ELSE api_calls
                /\ Continue("accumulate")
    /\ UNCHANGED <<world, page, faults, branches, bi, commit_branch_map, all_commits,
                   team_metrics, daily_activity, tables>>

(* main: one iteration of "for commit in commits".  An exception of the    *)
(* date read reaches "except Exception ... return".                        *)
AccumulateMain ==
    /\ pc = "accumulate"
    /\ entry = "main"
    /\ ci <= Len(all_commits)
    /\ LET sha    == all_commits[ci]
           c      == Commits[sha]
           author == ResolveAuthor(c)
       IN  IF DateRaises(c)
           THEN /\ Stop("error", 0)
                /\ UNCHANGED <<ci, dev_metrics, team_metrics, daily_activity, api_calls>>
           ELSE /\ team_metrics' = TeamUpdate(team_metrics, author, c.date, ProcessFiles(c))
                /\ dev_metrics' = AccumulateCommitMain(dev_metrics, sha)
                /\ daily_activity' = DailyUpdate(daily_activity, author, c.date)
                /\ ci' = ci + 1
                /\ api_calls' = Call(api_calls)
                /\ Continue("accumulate")
    /\ UNCHANGED <<world, page, faults, branches, bi, commit_branch_map, all_commits, tables>>

(* main: fetching the next page of commits raises inside the loop's try *)
CommitsFetchFail ==
    /\ pc = "accumulate"
    /\ entry = "main"
    /\ faults < MaxFaults
    /\ faults' = faults + 1
    /\ Stop("fetch_failed", 0)
    /\ UNCHANGED <<world, page, api_calls, data, tables>>

AccumulateDone ==
    /\ pc = "accumulate"
    /\ ci > Len(all_commits)
    /\ Continue("emit")
    /\ UNCHANGED <<world, page, api_calls, faults, data, tables>>

(* get_github_metrics: build the three DataFrames and write them *)
Emit ==
    /\ pc = "emit"
    /\ entry = "get_github_metrics"
    /\ team_table' = TeamSummary(dev_metrics)
    /\ dev_table' = DeveloperRows(dev_metrics)
    /\ daily_table' = DailyRows(dev_metrics)
    /\ tables_written' = TRUE
    /\ pc' = "done"
    /\ status' = "completed"
    /\ exit_code' = 0
    /\ UNCHANGED <<world, page, api_calls, faults, data>>

(* main: build the three DataFrames and write them *)
EmitMain ==
    /\ pc = "emit"
    /\ entry = "main"
    /\ team_table' = TeamSummaryMain(team_metrics)
    /\ dev_table' = DeveloperRows(dev_metrics)
    /\ daily_table' = DailyRowsMain(daily_activity)
    /\ tables_written' = TRUE
    /\ pc' = "done"
    /\ status' = "completed"
    /\ exit_code' = 0
    /\ UNCHANGED <<world, page, api_calls, faults, data>>

Next ==
    \/ CheckToken
    \/ CheckEnv
    \/ Authenticate
    \/ GetRepo
    \/ GetBranches
    \/ MapBranch
    \/ MapDone
    \/ CollectBranch
    \/ CollectDone
    \/ GetCommits
    \/ Accumulate
    \/ AccumulateMain
    \/ CommitsFetchFail
    \/ AccumulateDone
    \/ Emit
    \/ EmitMain

Spec == Init /\ [][Next]_vars

TypeOK ==
    /\ pc \in {"start", "auth", "get_repo", "get_branches", "get_commits", "map",
               "collect", "accumulate", "emit", "done", "exited"}
    /\ exit_code \in {NoExit, 0, 1}
    /\ api_calls \in 0..MaxApiCalls
    /\ faults \in 0..MaxFaults
    /\ page \in 1..(MaxRepoBranches + 1)
    /\ Range(branches) \subseteq BranchNames
    /\ DOMAIN commit_branch_map \subseteq SHAs
    /\ Range(all_commits) \subseteq SHAs
    /\ ci \in 1..(Len(all_commits) + 1)


----------------------------------------------------------------------------
(* Vocabulary of the properties.                                           *)

GGM == entry = "get_github_metrics"

Visited == 1..(ci - 1)

CommitAt(i) == Commits[all_commits[i]]

(* the i-th visit incremented a commits counter *)
CountedVisit(i) ==
    /\ i \in Visited
    /\ pc \in {"accumulate", "emit", "done", "exited"}
    /\ GGM => CommitAt(i).date >= StartDay

VisitsOf(a) == { i \in Visited : CountedVisit(i) /\ ResolveAuthor(CommitAt(i)) = a }

SameLetter(x, y) ==
    \/ x = y
    \/ x \in DOMAIN LowerOf /\ LowerOf[x] = y
    \/ y \in DOMAIN LowerOf /\ LowerOf[y] = x

(* the name ends in .png, .jpg or .jpeg, whatever the case of its letters *)
EndsInImageExt(n) ==
    \E ext \in ImageExts :
       /\ Len(n) >= Len(ext)
       /\ \A j \in 1..Len(ext) : SameLetter(n[Len(n) - Len(ext) + j], ext[j])

Or0(v) == IF v = Absent THEN 0 ELSE v

(* the deltas the file loop of commit c gets to *)
Reached(c) ==
    IF c.files_fail_at = NoFail \/ c.files_fail_at > Len(c.files)
    THEN 1..Len(c.files)
    ELSE 1..c.files_fail_at

Countable(c, J) == { j \in J : ~EndsInImageExt(c.files[j].filename) }

AddedIn(c, J) == SumFn([j \in Countable(c, J) |-> Or0(c.files[j].additions)], Countable(c, J))

RemovedIn(c, J) == SumFn([j \in Countable(c, J) |-> Or0(c.files[j].deletions)], Countable(c, J))

FilesIn(c, J) == { c.files[j].filename : j \in Countable(c, J) }

AllDeltas(c) == 1..Len(c.files)

----------------------------------------------------------------------------
(* C1: in get_github_metrics a commit that two or more branch listings     *)
(* deliver is counted once: the team 'Total Commits' is the number of      *)
(* distinct in-window SHAs, and every author's commits counter is the      *)
(* number of distinct in-window SHAs of that author.                       *)
C1_CountedOncePerSha ==
    (GGM /\ pc = "done") =>
        LET InWin == { sh \in Range(all_commits) : Commits[sh].date >= StartDay }
        IN  /\ team_table.total_commits = Cardinality(InWin)
            /\ \A a \in DOMAIN dev_metrics :
                  dev_metrics[a].commits =
                     Cardinality({ sh \in InWin : ResolveAuthor(Commits[sh]) = a })

(* C2: once both passes ran without a failed fetch, commit_branch_map      *)
(* holds for every SHA the first branch, in enumeration order, whose       *)
(* listing has the SHA.                                                    *)
C2_FirstObservedBranch ==
    (GGM /\ pc \in {"collect", "accumulate", "emit", "done"} /\ faults = 0) =>
        \A sh \in DOMAIN commit_branch_map :
           LET first == CHOOSE i \in 1..Len(branches) :
                           /\ sh \in Range(listing[branches[i]])
                           /\ \A j \in 1..(i - 1) : sh \notin Range(listing[branches[j]])
           IN  commit_branch_map[sh] = branches[first]

(* C4: a run without credential or without repository identifier sends    *)
(* no request to the hosting API, writes no table and exits non-zero.      *)
C4_MissingConfigAborts ==
    (~token \/ ~repo_name) =>
        /\ api_calls = 0
        /\ ~tables_written
        /\ pc # "done"
        /\ pc = "exited" => exit_code # 0

(* C5: every developer entry, and every developer of an output row, has a  *)
(* delivered commit dated start_date's day or later: a commit before       *)
(* the window creates no entry.                                            *)
C5_OutOfWindowNotCounted ==
    LET HasInWindow(a) ==
           \E i \in 1..Len(all_commits) :
              /\ ResolveAuthor(CommitAt(i)) = a
              /\ CommitAt(i).date >= StartDay
    IN  /\ \A a \in DOMAIN dev_metrics : HasInWindow(a)
        /\ \A a \in DOMAIN daily_activity : HasInWindow(a)
        /\ \A r \in dev_table \cup daily_table : HasInWindow(r.Developer)

(* C8: the emitted daily activity table has, for every developer of the    *)
(* accumulator map, exactly 7 rows, one per day of the 7 days ending at    *)
(* the run date, carrying the developer's commit count of that day or 0.   *)
C8_SevenRowsPerDeveloper ==
    tables_written =>
        \A a \in DOMAIN dev_metrics :
           LET rows == { r \in daily_table : r.Developer = a }
               cpd  == IF GGM THEN dev_metrics[a].commits_per_day
                       ELSE IF a \in DOMAIN daily_activity THEN daily_activity[a]
                       ELSE EmptyFn
           IN  /\ Cardinality(rows) = 7
               /\ \A i \in 0..6 :
                     \E r \in rows : r.Date = EndDay - i /\ r.Commits = GetOr0(cpd, EndDay - i)

(* C9: a commit with neither platform author nor raw commit author does    *)
(* not end the run, and once visited (in window) it is counted for the     *)
(* developer "Unknown".                                                    *)
C9_UnknownCounted ==
    /\ (pc = "exited" /\ status = "error") =>
          ~(CommitAt(ci).login = NoAuthor /\ CommitAt(ci).name = NoAuthor)
    /\ \A i \in Visited :
          (CountedVisit(i) /\ CommitAt(i).login = NoAuthor /\ CommitAt(i).name = NoAuthor)
             => ("Unknown" \in DOMAIN dev_metrics /\ dev_metrics["Unknown"].commits >= 1)


----------------------------------------------------------------------------
(* C3 as claimed: after accumulation every developer's lines_added and     *)
(* lines_removed are the sums of additions and deletions (absent = 0)      *)
(* over every non-image file delta of every commit visit counted for the   *)
(* developer, and files_changed holds no image file name.                  *)
C3_LinesEqualAllDeltas ==
    (pc \in {"emit", "done"}) =>
        \A a \in DOMAIN dev_metrics :
           /\ dev_metrics[a].lines_added =
                 SumFn([i \in VisitsOf(a) |-> AddedIn(CommitAt(i), AllDeltas(CommitAt(i)))],
                       VisitsOf(a))
           /\ dev_metrics[a].lines_removed =
                 SumFn([i \in VisitsOf(a) |-> RemovedIn(CommitAt(i), AllDeltas(CommitAt(i)))],
                       VisitsOf(a))
           /\ \A n \in dev_metrics[a].files_changed : ~EndsInImageExt(n)

(* C3 as amended: between any two iterations of the accumulation loop,     *)
(* every developer's lines_added and lines_removed are the sums of         *)
(* additions and deletions (absent = 0) over the non-image file deltas     *)
(* that the file loop of each counted commit visit reached before it       *)
(* ended or raised, and files_changed holds no image file name.            *)
C3_LinesEqualReachedDeltas ==
    \A a \in DOMAIN dev_metrics :
       /\ dev_metrics[a].lines_added =
             SumFn([i \in VisitsOf(a) |-> AddedIn(CommitAt(i), Reached(CommitAt(i)))],
                   VisitsOf(a))
       /\ dev_metrics[a].lines_removed =
             SumFn([i \in VisitsOf(a) |-> RemovedIn(CommitAt(i), Reached(CommitAt(i)))],
                   VisitsOf(a))
       /\ \A n \in dev_metrics[a].files_changed : ~EndsInImageExt(n)

(* a finished run that counted s1 (an image delta beside a code delta,     *)
(* an absent deletions value) and s2 (file loop raising after 2 deltas)    *)
C3_Witness ==
    /\ pc = "done"
    /\ "alice" \in DOMAIN dev_metrics /\ dev_metrics["alice"].lines_added >= 10
    /\ "bob" \in DOMAIN dev_metrics /\ dev_metrics["bob"].lines_added >= 2
    /\ \E i \in Visited : all_commits[i] = "s1"
    /\ \E i \in Visited : all_commits[i] = "s2"

----------------------------------------------------------------------------
(* What the accumulator must hold for a set of counted commits, written    *)
(* without reference to any visiting order.                                *)

CountedShas ==
    { sh \in Range(all_commits) : GGM => Commits[sh].date >= StartDay }

ShasOf(a) == { sh \in CountedShas : ResolveAuthor(Commits[sh]) = a }

MinOf(S) == CHOOSE x \in S : \A y \in S : x <= y
MaxOf(S) == CHOOSE x \in S : \A y \in S : x >= y

OnMaster(sh) == sh \in DOMAIN commit_branch_map /\ commit_branch_map[sh] = "master"

ExpectedMetrics(a) ==
    LET S      == ShasOf(a)
        days   == { Commits[sh].date : sh \in S }
        master == IF GGM THEN { sh \in S : OnMaster(sh) } ELSE S
        other  == S \ master
    IN  [lines_added       |-> SumFn([sh \in S |-> AddedIn(Commits[sh], Reached(Commits[sh]))], S),
         lines_removed     |-> SumFn([sh \in S |-> RemovedIn(Commits[sh], Reached(Commits[sh]))], S),
         commits           |-> Cardinality(S),
         coding_days       |-> days,
         commits_per_day   |-> IF GGM
                               THEN [d \in days |-> Cardinality({ sh \in S : Commits[sh].date = d })]
                               ELSE EmptyFn,
         files_changed     |-> UNION { FilesIn(Commits[sh], Reached(Commits[sh])) : sh \in S },
         first_commit      |-> MinOf(days),
         last_commit       |-> MaxOf(days),
         pr_branch_commits |-> IF GGM THEN Cardinality(other) ELSE 0,
         pr_branch_days    |-> IF GGM THEN { Commits[sh].date : sh \in other } ELSE {},
         master_commits    |-> Cardinality(master),
         master_days       |-> IF GGM THEN { Commits[sh].date : sh \in master } ELSE {}]

(* C6: after the accumulation loop over a commit sequence without          *)
(* duplicate SHAs, the per-developer state is a function of the set of     *)
(* commits and of commit_branch_map alone, so it is the same for every     *)
(* order in which the loop visits the commits.                             *)
C6_OrderIndependent ==
    (pc \in {"emit", "done"} /\ NoDup(all_commits)) =>
        /\ DOMAIN dev_metrics = { ResolveAuthor(Commits[sh]) : sh \in CountedShas }
        /\ \A a \in DOMAIN dev_metrics : dev_metrics[a] = ExpectedMetrics(a)

(* a finished run that visited alice's later commit s1 before her earlier  *)
(* commit s5 (the opposite order is reached as well)                       *)
C6_Witness ==
    /\ pc = "done"
    /\ NoDup(all_commits)
    /\ \E i, j \in 1..Len(all_commits) : i < j /\ all_commits[i] = "s1" /\ all_commits[j] = "s5"
    /\ dev_metrics["alice"].first_commit = StartDay
    /\ dev_metrics["alice"].last_commit = StartDay + 1

----------------------------------------------------------------------------
(* C7: the emitted team summary has 'Total Commits' = the sum of the       *)
(* developers' commit counts, 'Total Coding Days' = the size of the union  *)
(* of their coding-day sets, 'Active Developers' = the number of distinct  *)
(* authors with a counted commit visit; no developer entry has             *)
(* commits = 0; and in main the separately mutated team counters equal     *)
(* the same sum, union and author set after every processed commit.        *)
C7_TeamEqualsDevelopers ==
    LET sumCommits == SumFn([a \in DOMAIN dev_metrics |-> dev_metrics[a].commits],
                            DOMAIN dev_metrics)
        allDays    == UNION { dev_metrics[a].coding_days : a \in DOMAIN dev_metrics }
        authors    == { ResolveAuthor(CommitAt(i)) : i \in { v \in Visited : CountedVisit(v) } }
    IN  /\ \A a \in DOMAIN dev_metrics : dev_metrics[a].commits >= 1
        /\ DOMAIN dev_metrics = authors
        /\ tables_written =>
              /\ team_table.total_commits = sumCommits
              /\ team_table.total_coding_days = Cardinality(allDays)
              /\ team_table.active_developers = Cardinality(authors)
        /\ ~GGM =>
              /\ team_metrics.total_commits = sumCommits
              /\ team_metrics.total_coding_days = allDays
              /\ team_metrics.active_developers = authors

(* main has emitted a summary of two developers active on the same day *)
C7_Witness ==
    /\ ~GGM
    /\ tables_written
    /\ team_table.active_developers = 2
    /\ team_table.total_commits = 2
    /\ team_table.total_coding_days = 1

----------------------------------------------------------------------------
(* The step that visits a counted commit whose file processing fails.      *)
FailingVisitStep ==
    /\ pc = "accumulate"
    /\ ci <= Len(all_commits)
    /\ CommitAt(ci).files_fail_at # NoFail
    /\ ~DateRaises(CommitAt(ci))
    /\ GGM => CommitAt(ci).date >= StartDay
    /\ status' # "fetch_failed"

StaysCounted(m, n, c) ==
    /\ n.commits = m.commits + 1
    /\ n.coding_days = m.coding_days \cup {c.date}
    /\ GGM => GetOr0(n.commits_per_day, c.date) = GetOr0(m.commits_per_day, c.date) + 1
    /\ n.first_commit = (IF m.first_commit = NoDate \/ c.date < m.first_commit
                         THEN c.date ELSE m.first_commit)
    /\ n.last_commit = (IF m.last_commit = NoDate \/ c.date > m.last_commit
                        THEN c.date ELSE m.last_commit)

RunGoesOn ==
    /\ pc' = "accumulate"
    /\ status' = "running"
    /\ exit_code' = NoExit
    /\ ci' = ci + 1
    /\ all_commits' = all_commits

(* C10 as claimed: a counted commit whose file processing fails adds       *)
(* nothing to lines_added, lines_removed or files_changed, stays counted   *)
(* in commits, coding_days, commits_per_day and first/last commit, and     *)
(* the loop goes on to the next commit without ending the run.             *)
C10_FailedCommitAddsNothing ==
    [][ FailingVisitStep =>
          LET c == CommitAt(ci)
              a == ResolveAuthor(c)
              m == Get(dev_metrics, a)
          IN  /\ a \in DOMAIN dev_metrics'
              /\ dev_metrics'[a].lines_added = m.lines_added
              /\ dev_metrics'[a].lines_removed = m.lines_removed
              /\ dev_metrics'[a].files_changed = m.files_changed
              /\ StaysCounted(m, dev_metrics'[a], c)
              /\ RunGoesOn ]_vars

(* C10 as amended: a counted commit whose file processing fails adds to    *)
(* lines_added, lines_removed and files_changed exactly the non-image      *)
(* deltas processed before the failure (nothing when reading the file      *)
(* list itself fails) and none of the later ones, stays counted in         *)
(* commits, coding_days, commits_per_day and first/last commit, and the    *)
(* loop goes on to the next commit without ending the run.                 *)
C10_FailedCommitAddsReached ==
    [][ FailingVisitStep =>
          LET c == CommitAt(ci)
              a == ResolveAuthor(c)
              m == Get(dev_metrics, a)
          IN  /\ a \in DOMAIN dev_metrics'
              /\ dev_metrics'[a].lines_added = m.lines_added + AddedIn(c, Reached(c))
              /\ dev_metrics'[a].lines_removed = m.lines_removed + RemovedIn(c, Reached(c))
              /\ dev_metrics'[a].files_changed = m.files_changed \cup FilesIn(c, Reached(c))
              /\ StaysCounted(m, dev_metrics'[a], c)
              /\ RunGoesOn ]_vars

(* the loop has just visited s2, whose file loop raised after c.py and     *)
(* the image, and another commit is still to be visited                    *)
C10_Witness ==
    /\ pc = "accumulate"
    /\ ci > 1
    /\ ci <= Len(all_commits)
    /\ all_commits[ci - 1] = "s2"
    /\ "bob" \in DOMAIN dev_metrics
    /\ dev_metrics["bob"].files_changed = {c_py}
    /\ dev_metrics["bob"].commits = 1


----------------------------------------------------------------------------
(* C11: in get_github_metrics a run in which the commit fetch of a branch  *)
(* failed is not ended: it goes through both passes over all branches,     *)
(* at most one branch per failed fetch is missing commits in all_commits,  *)
(* every collected commit is visited and the tables are emitted.           *)
C11_BranchFailureSkipped ==
    (GGM /\ faults > 0) =>
        /\ pc # "exited"
        /\ pc \in {"accumulate", "emit", "done"} =>
              Cardinality({ i \in 1..Len(branches) :
                              ~(Range(listing[branches[i]]) \subseteq Range(all_commits)) })
                 <= faults
        /\ pc = "done" => (tables_written /\ ci = Len(all_commits) + 1)


----------------------------------------------------------------------------
(* Vocabulary of the branch enumeration.                                   *)

Readable(s) == SelectSeq(s, LAMBDA e : e # Unreadable)

Take(s, n) == IF Len(s) <= n THEN s ELSE SubSeq(s, 1, n)

(* how many entries of the listing lie on the pages before page p *)
Before(p) == (p - 1) * page_size

(* the entries of the listing that lie on page p *)
OnPage(p) ==
    LET rest == Len(repo_branches) - Before(p)
        n    == IF rest <= 0 THEN 0 ELSE IF rest < page_size THEN rest ELSE page_size
    IN  [k \in 1..n |-> repo_branches[Before(p) + k]]

(* the page request failed: nothing collected, no further request *)
PageError ==
    /\ branches' = branches
    /\ page' = page
    /\ pc' # "get_branches"

(* the page was delivered: its readable names are appended in page order   *)
(* up to the cap, and a further page is requested only after a full page   *)
(* that left the collection below the cap                                  *)
PageDelivered ==
    /\ branches' = Take(branches \o Readable(OnPage(page)), BranchCap)
    /\ IF \/ OnPage(page) = <<>>
          \/ Len(OnPage(page)) < PerPage
          \/ Len(branches') >= BranchCap
       THEN page' = page /\ pc' # "get_branches"
       ELSE page' = page + 1 /\ pc' = "get_branches"

(* C12: get_branches never holds more than the cap of names; the names     *)
(* are the readable entries of the pages it was delivered, in page and     *)
(* in-page order, unreadable entries left out; while it loops every        *)
(* earlier page was full and the collection is below the cap, so the       *)
(* number of page requests is bounded by the listing's length and by the   *)
(* cap; and each iteration ends the enumeration after a failed request,    *)
(* an empty page, a page shorter than per_page or on reaching the cap,     *)
(* and requests the next page otherwise.                                   *)
C12_GetBranchesBounded ==
    /\ [](/\ Len(branches) <= BranchCap
          /\ \E n \in 0..Len(repo_branches) :
                branches = Take(Readable(SubSeq(repo_branches, 1, n)), BranchCap)
          /\ Before(page) <= Len(repo_branches)
          /\ page > 1 => page_size >= PerPage
          /\ pc = "get_branches" =>
                /\ Len(branches) < BranchCap
                /\ branches = Readable(SubSeq(repo_branches, 1, Before(page))))
    /\ [][ pc = "get_branches" => (PageError \/ PageDelivered) ]_vars

(* get_branches has returned after its second page: the first page was     *)
(* full and held an unreadable entry, the cap was reached on the second    *)
(* page and the listing has more readable entries than the cap             *)
C12_Witness ==
    /\ pc = "map"
    /\ page = 2
    /\ Len(repo_branches) > 2 * page_size
    /\ Unreadable \in Range(OnPage(1))
    /\ Len(branches) = BranchCap
    /\ Len(Readable(repo_branches)) > BranchCap

====
